---- MODULE Spec2Model ----
(***************************************************************************)
(* User-level copy-on-write fork of JOS (lib/fork.c): the page-fault       *)
(* handler pgfault, the page duplicator duppage and the driver fork,       *)
(* running on top of the kernel primitives whose contracts section 6 of    *)
(* the specification gives.  Every environment runs its own code; each     *)
(* system call is one atomic step and a point where another environment    *)
(* may run.                                                                *)
(***************************************************************************)
EXTENDS Integers, FiniteSets

(* ------------------------------------------------------------------ *)
(* Bounds of the model.                                                 *)
(* ------------------------------------------------------------------ *)
\* number of environment slots (the root and its descendants)
MaxEnvs == 3
\* number of physical frames
MaxFrames == 9
\* page contents are values 0..MaxVal
MaxVal == 1
\* how many system calls the kernel may refuse although their
\* precondition holds
MaxFail == 1
\* how many writes the programs make in all
MaxWrites == 2

(* ------------------------------------------------------------------ *)
(* Address-space layout, scaled: a page table holds NPTENTRIES pages.   *)
(* ------------------------------------------------------------------ *)
\* entries of one page table (1024 on x86, scaled down)
NPTENTRIES == 2
\* PDX(UTOP): number of page-directory entries below UTOP (scaled down)
PDXUTOP == 3
UTOPPN == PDXUTOP * NPTENTRIES
\* PGNUM(UXSTACKTOP - PGSIZE): the last page below UTOP
UXSTACKPN == UTOPPN - 1
\* the normal user stack
USTACKPN == UTOPPN - 2
\* PGNUM(PFTEMP): the last page of the UTEMP page table
PFTEMPPN == NPTENTRIES - 1
\* program text (read-only) and program data (thisenv lives there)
UTEXTPN == NPTENTRIES
UDATAPN == NPTENTRIES + 1

\* the runs: a kernel that never refuses a system call whose precondition
\* holds, and one that does, with less memory and shorter programs
Limits ==
    {[frames |-> MaxFrames, writes |-> MaxWrites, fails |-> 0,
      envs |-> MaxEnvs],
     [frames |-> MaxFrames - 2, writes |-> MaxWrites - 1, fails |-> MaxFail,
      envs |-> MaxEnvs]}
\* the run in which progress is looked at: a kernel that never refuses,
\* a shorter program and one environment slot less
LimitsFair ==
    {[frames |-> MaxFrames, writes |-> MaxWrites - 1, fails |-> 0,
      envs |-> MaxEnvs - 1]}

Envs == 1..MaxEnvs
Frames == 1..MaxFrames
Values == 0..MaxVal
Pages == 0..(UTOPPN - 1)
\* pages the program itself reads and writes
UserPages == {PFTEMPPN, UTEXTPN, UDATAPN, USTACKPN}

PDX(pn) == pn \div NPTENTRIES

(* permission bits *)
PTE_P == "P"
PTE_W == "W"
PTE_U == "U"
PTE_COW == "COW"
Perms == {PTE_P, PTE_W, PTE_U, PTE_COW}

NoPte == [f |-> 0, perm |-> {}]
NoAcc == [pn |-> 0, wr |-> FALSE, val |-> -1, ret |-> "none"]
NoFk == [envid |-> 0, i |-> 0, j |-> 0, pte |-> {}]
NoView == [pn \in 0..(UTOPPN - 1) |-> -1]
NoOld == [pt |-> [pn \in 0..(UTOPPN - 1) |-> NoPte], view |-> NoView]

VARIABLES
    pc,       \* where each environment's code stands
    status,   \* env_status kept by the kernel
    pt,       \* page tables: pt[e][pn] = [f, perm]
    pd,       \* page directories: pd[e][i] = the PDE's PTE_P
    mem,      \* contents of the frames
    upcall,   \* env_pgfault_upcall kept by the kernel
    handler,  \* _pgfault_handler of the user library
    fk,       \* locals of fork and duppage
    acc,      \* the access that faulted, retried when pgfault returns
    retval,   \* what fork() last returned (-1: nothing yet)
    nfail,    \* system calls refused so far
    nwr,      \* writes the programs have made so far
    lim,      \* the run's limits: frames, writes, refusals, environments
    own,      \* history: what the program expects to read from each page
    snap,     \* history: the caller's pages when it called fork()
    pfold,    \* history: the faulting environment's pages at fault time
    nflt,     \* history: pgfault invocations since fork() returned
    wrote     \* history: pages written since fork() returned

vars == <<pc, status, pt, pd, mem, upcall, handler, fk, acc, retval, nfail, nwr, lim,
          own, snap, pfold, nflt, wrote>>

(* ------------------------------------------------------------------ *)
(* Reading the machine state.                                           *)
(* ------------------------------------------------------------------ *)
Present(e, pn) == PTE_P \in pt[e][pn].perm
Writable(e, pn) == Present(e, pn) /\ PTE_W \in pt[e][pn].perm
IsCow(e, pn) == Present(e, pn) /\ PTE_COW \in pt[e][pn].perm
FrameOf(e, pn) == pt[e][pn].f
\* what environment e reads at page pn (-1: not mapped)
View(e, pn) == IF Present(e, pn) THEN mem[FrameOf(e, pn)] ELSE -1
Mappings(ptab, f) == {x \in Envs \X Pages : ptab[x[1]][x[2]].f = f}
FreeIn(ptab) == Frames \ {ptab[x[1]][x[2]].f : x \in Envs \X Pages}
Min(S) == CHOOSE x \in S : \A y \in S : x <= y
\* the kernel counts references: a frame nobody maps is free again
Scrub(ptab, m) == [f \in Frames |-> IF f \in FreeIn(ptab) THEN 0 ELSE m[f]]

\* a system call succeeds only if its precondition holds; the kernel may
\* also refuse it
Outcome(ok, pre) == IF ok THEN pre ELSE (~pre \/ nfail < lim.fails)
Refused(ok, pre) == IF ~ok /\ pre THEN nfail + 1 ELSE nfail


(* ------------------------------------------------------------------ *)
(* Kernel primitives (section 6 of the specification).                  *)
(* ------------------------------------------------------------------ *)
\* page_alloc: a zeroed frame mapped at pn of e, replacing what was there
PageAllocPre == \E f \in FreeIn(pt) : f <= lim.frames
PtAlloc(e, pn, perm) ==
    [pt EXCEPT ![e][pn] = [f |-> Min(FreeIn(pt)), perm |-> perm]]
MemAlloc(e, pn, perm) ==
    Scrub(PtAlloc(e, pn, perm), [mem EXCEPT ![Min(FreeIn(pt))] = 0])
\* page_map: dpn of de refers to the frame mapped at spn of se
PageMapPre(se, spn) == Present(se, spn)
PtMap(se, spn, de, dpn, perm) ==
    [pt EXCEPT ![de][dpn] = [f |-> pt[se][spn].f, perm |-> perm]]
\* page_unmap: the mapping at pn of e is removed
PtUnmap(e, pn) == [pt EXCEPT ![e][pn] = NoPte]
\* a mapping installed at pn makes its page table present
PdTouch(e, pn) == [pd EXCEPT ![e][PDX(pn)] = TRUE]
\* exo_fork: the lowest free environment slot
ExoforkPre == \E c \in Envs : pc[c] = "none" /\ c <= lim.envs
NewEnv == Min({c \in Envs : pc[c] = "none"})
\* the kernel delivers a fault to the upcall on the exception stack, or
\* destroys the environment
CanUpcall(e) == upcall[e] # "none" /\ Writable(e, UXSTACKPN)
PtDestroy(e) == [pt EXCEPT ![e] = [pn \in Pages |-> NoPte]]

(* ------------------------------------------------------------------ *)
(* Decisions taken by fork.c.                                           *)
(* ------------------------------------------------------------------ *)
\* Each decision is given as the code takes it; the definition that comes
\* just before it is the same decision as a slip of the pen would have it,
\* against which the properties below are tried.

\* line 29: the fault is legitimate (slip: the write bit alone is checked)
PgfaultOnlyWrite(wr, pte) == wr
PgfaultOk(wr, pte) == wr /\ PTE_COW \in pte
\* lines 39, 48: the private copy is mapped PTE_P | PTE_W | PTE_U (slip:
\* it is mapped copy-on-write like the page it replaces)
PgfaultPermCow == {PTE_P, PTE_U, PTE_COW}
PgfaultPerm == {PTE_P, PTE_W, PTE_U}
\* line 43: memmove(PFTEMP, addr, PGSIZE), on the frames behind the two
\* addresses (slip: the arguments are the other way round)
MemmoveReversed(m, dstf, srcf) == [m EXCEPT ![srcf] = m[dstf]]
Memmove(m, dstf, srcf) == [m EXCEPT ![dstf] = m[srcf]]
\* line 68: cow, set if the page is writable or copy-on-write (slip: a
\* page that is copy-on-write already is taken for read-only)
DupCowOnlyW(pte) == IF PTE_W \in pte THEN {PTE_COW} ELSE {}
DupCow(pte) == IF PTE_COW \in pte \/ PTE_W \in pte THEN {PTE_COW} ELSE {}
\* line 72: the child's mapping, PTE_P | PTE_U | cow (slip: the bits of
\* the parent's entry are kept and cow is added)
DupChildPermOr(pte) == pte \cup DupCow(pte)
DupChildPerm(pte) == {PTE_P, PTE_U} \cup DupCow(pte)
\* line 72: the call that gives the child its page, sys_page_map from the
\* caller's page (slip: the child is given a frame of its own, as an eager
\* copy would)
DupChildAlloc(ptab, e, c, pn, perm) ==
    [ptab EXCEPT ![c][pn] =
        [f |-> CHOOSE x \in Frames :
                   \A y \in Envs, n \in 0..(UTOPPN - 1) : ptab[y][n].f # x,
         perm |-> perm]]
DupChildMap(ptab, e, c, pn, perm) ==
    [ptab EXCEPT ![c][pn] = [f |-> ptab[e][pn].f, perm |-> perm]]
\* line 76: the parent's own mapping afterwards, PTE_P | PTE_U | PTE_COW
\* (slip: it is left writable)
DupParentPermW == {PTE_P, PTE_U, PTE_W}
DupParentPerm == {PTE_P, PTE_U, PTE_COW}
\* lines 72-77: duppage makes the child-side call first (slip: it starts
\* with the parent-side call)
DupEntersParentSide == "dup_parent"
DupEnters == "dup_child"
\* lines 73, 77: a sys_page_map that fails ends duppage in panic (slip:
\* duppage returns the error, which line 126 does not look at, and the
\* walk goes on)
DupFailGoesOn == "fork_walk"
DupFail == "panic"
\* line 115: the walk covers the page directory below PDX(UTOP) (slip:
\* it stops one entry short)
WalkBelowShort(pn) == PDX(pn) < PDXUTOP - 1
WalkBelow(pn) == PDX(pn) < PDXUTOP
\* lines 108, 131, 134, 137: a primitive of fork that fails ends fork in
\* panic (slip: fork returns to its caller)
ForkFailReturns == "user"
ForkFail == "panic"
\* line 122: the page the walk leaves out, the exception stack (slips: no
\* page is left out; the user stack is left out instead)
WalkSkipsNone(pgno) == FALSE
WalkSkipsStack(pgno) == pgno = USTACKPN
WalkSkips(pgno) == pgno = UXSTACKPN
\* line 130: the child's exception stack is mapped PTE_P | PTE_W | PTE_U
XstackPerm == {PTE_P, PTE_W, PTE_U}
\* lines 128-130: after the walk the driver allocates the child's
\* exception stack (slip: it goes straight to sys_env_set_status)
AfterWalkEarly == "fork_status"
AfterWalk == "fork_xstack"

\* what the kernel's UTrapframe leaves on the exception stack
TrapFrame == MaxVal

Running(e) == status[e] = "ENV_RUNNABLE"
\* every call the code makes pushes on the user stack: the code gets to
\* its next step only once a write to the stack lands
StackOk(e) == Writable(e, USTACKPN)
Pgno(e) == fk[e].i * NPTENTRIES + fk[e].j
\* panic(): the environment stops for good; what its code had in hand is
\* of no use any more.  a is what is kept of the fault the environment
\* was handling.
PanicTo(e, a, to) ==
    /\ pc' = [pc EXCEPT ![e] = to]
    /\ fk' = [fk EXCEPT ![e].i = 0, ![e].j = 0, ![e].pte = {}]
    /\ acc' = [acc EXCEPT ![e] = a]
    /\ own' = [own EXCEPT ![e] = NoView]
    /\ snap' = [snap EXCEPT ![e] = NoView]
    /\ pfold' = [pfold EXCEPT ![e] = NoOld]
    /\ nflt' = [nflt EXCEPT ![e] = 0]
    /\ wrote' = [wrote EXCEPT ![e] = {}]
PanicWith(e, a) == PanicTo(e, a, "panic")
Panic(e) == PanicWith(e, NoAcc)

(* ------------------------------------------------------------------ *)
(* A memory access of environment e: it lands, or the kernel delivers   *)
(* a page fault to the upcall (which runs pgfault on the exception      *)
(* stack), or the environment is destroyed.                             *)
(* ------------------------------------------------------------------ *)
Access(e, pn, wr, val, ret) ==
    IF Present(e, pn) /\ (wr => Writable(e, pn))
    THEN /\ mem' = IF wr /\ val >= 0
                   THEN [mem EXCEPT ![FrameOf(e, pn)] = val] ELSE mem
         /\ pc' = [pc EXCEPT ![e] = ret]
         /\ acc' = [acc EXCEPT ![e] = NoAcc]
         /\ own' = IF wr /\ val >= 0 /\ own[e][pn] # -1
                   THEN [own EXCEPT ![e][pn] = val] ELSE own
         /\ wrote' = IF wr /\ val >= 0 /\ own[e][pn] # -1
                     THEN [wrote EXCEPT ![e] = @ \cup {pn}] ELSE wrote
         /\ UNCHANGED <<status, pt, pd, pfold, nflt>>
    ELSE IF CanUpcall(e)
    THEN /\ mem' = [mem EXCEPT ![FrameOf(e, UXSTACKPN)] = TrapFrame]
         /\ pc' = [pc EXCEPT ![e] = "pgfault"]
         /\ acc' = [acc EXCEPT ![e] =
                       [pn |-> pn, wr |-> wr, val |-> val, ret |-> ret]]
         /\ pfold' = [pfold EXCEPT ![e] =
                         [pt |-> pt[e], view |-> [n \in Pages |-> View(e, n)]]]
         /\ nflt' = [nflt EXCEPT ![e] = @ + 1]
         /\ UNCHANGED <<status, pt, pd, own, wrote>>
    ELSE /\ pt' = PtDestroy(e)
         /\ mem' = Scrub(PtDestroy(e), mem)
         /\ pc' = [pc EXCEPT ![e] = "dead"]
         /\ status' = [status EXCEPT ![e] = "ENV_FREE"]
         /\ acc' = [acc EXCEPT ![e] = NoAcc]
         /\ own' = [own EXCEPT ![e] = NoView]
         /\ wrote' = [wrote EXCEPT ![e] = {}]
         /\ nflt' = [nflt EXCEPT ![e] = 0]
         /\ UNCHANGED <<pd, pfold>>

(* the program writes a value to one of its pages *)
UserWrite(e) ==
    /\ Running(e) /\ pc[e] = "user"
    /\ nwr < lim.writes
    /\ nwr' = nwr + 1
    /\ \E pn \in UserPages, v \in Values : Access(e, pn, TRUE, v, "user")
    /\ UNCHANGED <<upcall, handler, fk, retval, nfail, snap, lim>>

(* the program reads one of its pages *)
UserRead(e) ==
    /\ Running(e) /\ pc[e] = "user"
    /\ \E pn \in UserPages : Access(e, pn, FALSE, -1, "user")
    /\ UNCHANGED <<nwr, lim, upcall, handler, fk, retval, nfail, snap>>

(* the faulting instruction is executed again when pgfault has returned *)
Retry(e) ==
    /\ Running(e) /\ pc[e] = "retry"
    /\ Access(e, acc[e].pn, acc[e].wr, acc[e].val, acc[e].ret)
    /\ UNCHANGED <<nwr, lim, upcall, handler, fk, retval, nfail, snap>>


(* ------------------------------------------------------------------ *)
(* pgfault.                                                             *)
(* ------------------------------------------------------------------ *)
\* lines 26-31: the fault is a write to a copy-on-write page, or panic;
\* the refused fault (its page, read or write) stays on record
PgfaultCheck(e) ==
    /\ Running(e) /\ pc[e] = "pgfault"
    /\ IF PgfaultOk(acc[e].wr, pt[e][acc[e].pn].perm)
       THEN /\ pc' = [pc EXCEPT ![e] = "pf_alloc"]
            /\ UNCHANGED <<fk, acc, own, snap, pfold, nflt, wrote>>
       ELSE PanicWith(e, [acc[e] EXCEPT !.val = -1, !.ret = "none"])
    /\ UNCHANGED <<status, pt, pd, mem, upcall, handler, retval, nfail, nwr, lim>>

\* lines 39-40: sys_page_alloc(envid, PFTEMP, PTE_P | PTE_W | PTE_U)
PgfaultAlloc(e) ==
    /\ Running(e) /\ pc[e] = "pf_alloc"
    /\ \E ok \in BOOLEAN :
        /\ Outcome(ok, PageAllocPre)
        /\ nfail' = Refused(ok, PageAllocPre)
        /\ IF ok
           THEN /\ pt' = PtAlloc(e, PFTEMPPN, PgfaultPerm)
                /\ mem' = MemAlloc(e, PFTEMPPN, PgfaultPerm)
                /\ pd' = PdTouch(e, PFTEMPPN)
                /\ pc' = [pc EXCEPT ![e] = "pf_unmap"]
                /\ UNCHANGED <<fk, acc, own, snap, pfold, nflt, wrote>>
           ELSE /\ Panic(e)
                /\ UNCHANGED <<pt, mem, pd>>
    /\ UNCHANGED <<status, upcall, handler, retval, nwr, lim>>

\* lines 42-46: memmove(PFTEMP, addr, PGSIZE); sys_page_unmap(envid, addr)
PgfaultCopyUnmap(e) ==
    /\ Running(e) /\ pc[e] = "pf_unmap"
    /\ \E ok \in BOOLEAN :
        /\ Outcome(ok, TRUE)
        /\ nfail' = Refused(ok, TRUE)
        /\ IF ok
           THEN /\ pt' = PtUnmap(e, acc[e].pn)
                /\ mem' = Scrub(PtUnmap(e, acc[e].pn),
                             Memmove(mem, FrameOf(e, PFTEMPPN),
                                     FrameOf(e, acc[e].pn)))
                /\ pc' = [pc EXCEPT ![e] = "pf_map"]
                /\ UNCHANGED <<fk, acc, own, snap, pfold, nflt, wrote>>
           ELSE /\ mem' = Memmove(mem, FrameOf(e, PFTEMPPN),
                                   FrameOf(e, acc[e].pn))
                /\ Panic(e)
                /\ UNCHANGED pt
    /\ UNCHANGED <<status, pd, upcall, handler, retval, nwr, lim>>

\* lines 48-50: sys_page_map(envid, PFTEMP, envid, addr, PTE_P|PTE_W|PTE_U),
\* and the handler returns
PgfaultMap(e) ==
    /\ Running(e) /\ pc[e] = "pf_map"
    /\ \E ok \in BOOLEAN :
        /\ Outcome(ok, PageMapPre(e, PFTEMPPN))
        /\ nfail' = Refused(ok, PageMapPre(e, PFTEMPPN))
        /\ IF ok
           THEN /\ pt' = PtMap(e, PFTEMPPN, e, acc[e].pn, PgfaultPerm)
                /\ pd' = PdTouch(e, acc[e].pn)
                /\ pc' = [pc EXCEPT ![e] = "retry"]
                /\ pfold' = [pfold EXCEPT ![e] = NoOld]
                /\ UNCHANGED <<fk, acc, own, snap, nflt, wrote>>
           ELSE /\ Panic(e)
                /\ UNCHANGED <<pt, pd>>
    /\ UNCHANGED <<status, mem, upcall, handler, retval, nwr, lim>>

(* ------------------------------------------------------------------ *)
(* fork and duppage.                                                    *)
(* ------------------------------------------------------------------ *)
\* the program calls fork(); lines 101-105: set_pgfault_handler(pgfault),
\* whose first call allocates the exception stack and installs the upcall
ForkEntry(e) ==
    /\ Running(e) /\ pc[e] = "user" /\ StackOk(e)
    /\ retval' = [retval EXCEPT ![e] = -1]
    /\ \E ok \in BOOLEAN :
        /\ Outcome(ok, handler[e] # "none" \/ PageAllocPre)
        /\ nfail' = Refused(ok, handler[e] # "none" \/ PageAllocPre)
        /\ IF ok
           THEN /\ snap' = [snap EXCEPT ![e] = [pn \in Pages |-> View(e, pn)]]
                /\ own' = [own EXCEPT ![e] = [pn \in Pages |->
                      IF pn \in UserPages /\ (Writable(e, pn) \/ IsCow(e, pn))
                      THEN View(e, pn) ELSE -1]]
                /\ nflt' = [nflt EXCEPT ![e] = 0]
                /\ wrote' = [wrote EXCEPT ![e] = {}]
                /\ pc' = [pc EXCEPT ![e] = "fork_exofork"]
                /\ handler' = [handler EXCEPT ![e] = "pgfault"]
                /\ IF handler[e] = "none"
                   THEN /\ pt' = PtAlloc(e, UXSTACKPN, XstackPerm)
                        /\ mem' = MemAlloc(e, UXSTACKPN, XstackPerm)
                        /\ pd' = PdTouch(e, UXSTACKPN)
                        /\ upcall' = [upcall EXCEPT ![e] = "_pgfault_upcall"]
                   ELSE UNCHANGED <<pt, mem, pd, upcall>>
                /\ UNCHANGED <<fk, acc, pfold>>
           ELSE /\ Panic(e)
                /\ UNCHANGED <<pt, mem, pd, upcall, handler>>
    /\ UNCHANGED <<status, nwr, lim>>

\* lines 107-108: sys_exofork(); the child exists, not runnable, with no
\* mapping, and will leave sys_exofork with 0 when it first runs
ForkExofork(e) ==
    /\ Running(e) /\ pc[e] = "fork_exofork" /\ StackOk(e)
    /\ \E ok \in BOOLEAN :
        /\ Outcome(ok, ExoforkPre)
        /\ nfail' = Refused(ok, ExoforkPre)
        /\ IF ok
           THEN /\ pc' = [pc EXCEPT ![e] = "fork_walk",
                                    ![NewEnv] = "fork_child"]
                /\ status' = [status EXCEPT ![NewEnv] = "ENV_NOT_RUNNABLE"]
                /\ handler' = [handler EXCEPT ![NewEnv] = handler[e]]
                /\ own' = [own EXCEPT ![NewEnv] = own[e]]
                /\ fk' = [fk EXCEPT ![e] =
                             [envid |-> NewEnv, i |-> 0, j |-> 0, pte |-> {}]]
                /\ UNCHANGED <<acc, snap, pfold, nflt, wrote>>
           ELSE /\ PanicTo(e, NoAcc, ForkFail)
                /\ UNCHANGED <<status, handler>>
    /\ UNCHANGED <<pt, pd, mem, upcall, retval, nwr, lim>>

\* lines 115-126: the pages from pgno on that the walk hands to duppage:
\* present, in a present page table, and not left out
WalkPages(e, pgno) ==
    {pn \in Pages : /\ pn >= pgno
                    /\ WalkBelow(pn)
                    /\ pd[e][PDX(pn)]
                    /\ ~WalkSkips(pn)
                    /\ Present(e, pn)}

\* lines 115-126 and 67-70: the walk runs on to its next present page,
\* where duppage is entered and reads the PTE, or to its end
ForkWalk(e) ==
    /\ Running(e) /\ pc[e] = "fork_walk" /\ StackOk(e)
    /\ IF WalkPages(e, Pgno(e)) = {}
       THEN /\ pc' = [pc EXCEPT ![e] = AfterWalk]
            /\ fk' = [fk EXCEPT ![e].i = 0, ![e].j = 0, ![e].pte = {}]
       ELSE /\ fk' = [fk EXCEPT
                        ![e].i = PDX(Min(WalkPages(e, Pgno(e)))),
                        ![e].j = Min(WalkPages(e, Pgno(e))) % NPTENTRIES,
                        ![e].pte = pt[e][Min(WalkPages(e, Pgno(e)))].perm]
            /\ pc' = [pc EXCEPT ![e] = DupEnters]
    /\ UNCHANGED <<status, pt, pd, mem, upcall, handler, acc, retval, nfail,
                   nwr, lim, own, snap, pfold, nflt, wrote>>

\* lines 72-73: sys_page_map(thisenvid, addr, envid, addr, PTE_P|PTE_U|cow)
DupChild(e) ==
    /\ Running(e) /\ pc[e] = "dup_child" /\ StackOk(e)
    /\ \E ok \in BOOLEAN :
        /\ Outcome(ok, PageMapPre(e, Pgno(e)))
        /\ nfail' = Refused(ok, PageMapPre(e, Pgno(e)))
        /\ IF ok
           THEN /\ pt' = DupChildMap(pt, e, fk[e].envid, Pgno(e),
                                     DupChildPerm(fk[e].pte))
                /\ pd' = PdTouch(fk[e].envid, Pgno(e))
                /\ IF DupCow(fk[e].pte) # {}
                   THEN /\ pc' = [pc EXCEPT ![e] = "dup_parent"]
                        /\ UNCHANGED fk
                   ELSE /\ pc' = [pc EXCEPT ![e] = "fork_walk"]
                        /\ fk' = [fk EXCEPT ![e].j = @ + 1, ![e].pte = {}]
                /\ UNCHANGED <<acc, own, snap, pfold, nflt, wrote>>
           ELSE /\ PanicTo(e, NoAcc, DupFail)
                /\ UNCHANGED <<pt, pd>>
    /\ UNCHANGED <<status, mem, upcall, handler, retval, nwr, lim>>

\* lines 75-79: sys_page_map(thisenvid, addr, thisenvid, addr,
\* PTE_P | PTE_U | PTE_COW), and duppage returns
DupParent(e) ==
    /\ Running(e) /\ pc[e] = "dup_parent" /\ StackOk(e)
    /\ \E ok \in BOOLEAN :
        /\ Outcome(ok, PageMapPre(e, Pgno(e)))
        /\ nfail' = Refused(ok, PageMapPre(e, Pgno(e)))
        /\ IF ok
           THEN /\ pt' = PtMap(e, Pgno(e), e, Pgno(e), DupParentPerm)
                /\ pc' = [pc EXCEPT ![e] = "fork_walk"]
                /\ fk' = [fk EXCEPT ![e].j = @ + 1, ![e].pte = {}]
                /\ UNCHANGED <<acc, own, snap, pfold, nflt, wrote>>
           ELSE /\ PanicTo(e, NoAcc, DupFail)
                /\ UNCHANGED pt
    /\ UNCHANGED <<status, pd, mem, upcall, handler, retval, nwr, lim>>

\* lines 130-131: sys_page_alloc(envid, UXSTACKTOP - PGSIZE, PTE_P|PTE_W|PTE_U)
ForkXstack(e) ==
    /\ Running(e) /\ pc[e] = "fork_xstack" /\ StackOk(e)
    /\ \E ok \in BOOLEAN :
        /\ Outcome(ok, PageAllocPre)
        /\ nfail' = Refused(ok, PageAllocPre)
        /\ IF ok
           THEN /\ pt' = PtAlloc(fk[e].envid, UXSTACKPN, XstackPerm)
                /\ mem' = MemAlloc(fk[e].envid, UXSTACKPN, XstackPerm)
                /\ pd' = PdTouch(fk[e].envid, UXSTACKPN)
                /\ pc' = [pc EXCEPT ![e] = "fork_upcall"]
                /\ UNCHANGED <<fk, acc, own, snap, pfold, nflt, wrote>>
           ELSE /\ PanicTo(e, NoAcc, ForkFail)
                /\ UNCHANGED <<pt, mem, pd>>
    /\ UNCHANGED <<status, upcall, handler, retval, nwr, lim>>

\* lines 133-134: sys_env_set_pgfault_upcall(envid, thisenv->env_pgfault_upcall)
ForkUpcall(e) ==
    /\ Running(e) /\ pc[e] = "fork_upcall" /\ StackOk(e)
    /\ \E ok \in BOOLEAN :
        /\ Outcome(ok, TRUE)
        /\ nfail' = Refused(ok, TRUE)
        /\ IF ok
           THEN /\ upcall' = [upcall EXCEPT ![fk[e].envid] = upcall[e]]
                /\ pc' = [pc EXCEPT ![e] = "fork_status"]
                /\ UNCHANGED <<fk, acc, own, snap, pfold, nflt, wrote>>
           ELSE /\ PanicTo(e, NoAcc, ForkFail)
                /\ UNCHANGED upcall
    /\ UNCHANGED <<status, pt, pd, mem, handler, retval, nwr, lim>>

\* lines 136-139: sys_env_set_status(envid, ENV_RUNNABLE); return envid
ForkStatus(e) ==
    /\ Running(e) /\ pc[e] = "fork_status" /\ StackOk(e)
    /\ \E ok \in BOOLEAN :
        /\ Outcome(ok, TRUE)
        /\ nfail' = Refused(ok, TRUE)
        /\ IF ok
           THEN /\ status' = [status EXCEPT ![fk[e].envid] = "ENV_RUNNABLE"]
                /\ retval' = [retval EXCEPT ![e] = fk[e].envid]
                /\ pc' = [pc EXCEPT ![e] = "user"]
                /\ fk' = [fk EXCEPT ![e] = NoFk]
                /\ snap' = [snap EXCEPT ![e] = NoView]
                /\ nflt' = [nflt EXCEPT ![e] = 0]
                /\ UNCHANGED <<acc, own, pfold, wrote>>
           ELSE /\ PanicTo(e, NoAcc, ForkFail)
                /\ UNCHANGED <<status, retval>>
    /\ UNCHANGED <<pt, pd, mem, upcall, handler, nwr, lim>>

\* lines 110-111: in the child sys_exofork returned 0; thisenv, which
\* lies on the data page, is set again
ForkChild(e) ==
    /\ Running(e) /\ pc[e] = "fork_child" /\ StackOk(e)
    /\ Access(e, UDATAPN, TRUE, -1, "fork_child_ret")
    /\ UNCHANGED <<upcall, handler, fk, retval, nfail, nwr, lim, snap>>

\* line 112: return 0
ForkChildRet(e) ==
    /\ Running(e) /\ pc[e] = "fork_child_ret"
    /\ retval' = [retval EXCEPT ![e] = 0]
    /\ pc' = [pc EXCEPT ![e] = "user"]
    /\ nflt' = [nflt EXCEPT ![e] = 0]
    /\ UNCHANGED <<status, pt, pd, mem, upcall, handler, fk, acc, nfail, nwr,
                   lim, own, snap, pfold, wrote>>

\* lines 98-140: a call made by fork or duppage, or by the child on its
\* way out of fork, pushes on a stack page that is not writable: the write
\* faults and is made again when pgfault has returned
CallerPcs == {"fork_exofork", "fork_walk", "dup_child", "dup_parent",
              "fork_xstack", "fork_upcall", "fork_status", "fork_child"}
StackPush(e) ==
    /\ Running(e) /\ pc[e] \in CallerPcs
    /\ ~StackOk(e)
    /\ Access(e, USTACKPN, TRUE, -1, pc[e])
    /\ UNCHANGED <<upcall, handler, fk, retval, nfail, nwr, lim, snap>>

(* ------------------------------------------------------------------ *)
(* The system.                                                          *)
(* ------------------------------------------------------------------ *)
InitWith(L) ==
    /\ pc = [e \in Envs |-> IF e = 1 THEN "user" ELSE "none"]
    /\ status = [e \in Envs |-> IF e = 1 THEN "ENV_RUNNABLE" ELSE "ENV_FREE"]
    /\ pt = [e \in Envs |-> [pn \in Pages |->
               IF e # 1 THEN NoPte
               ELSE IF pn = UTEXTPN THEN [f |-> 1, perm |-> {PTE_P, PTE_U}]
               ELSE IF pn = UDATAPN THEN [f |-> 2, perm |-> {PTE_P, PTE_W, PTE_U}]
               ELSE IF pn = USTACKPN THEN [f |-> 3, perm |-> {PTE_P, PTE_W, PTE_U}]
               ELSE NoPte]]
    /\ pd = [e \in Envs |-> [i \in 0..(PDXUTOP - 1) |->
               e = 1 /\ i \in {PDX(UTEXTPN), PDX(UDATAPN), PDX(USTACKPN)}]]
    /\ mem = [f \in Frames |-> IF f \in {1, 2} THEN MaxVal ELSE 0]
    /\ upcall = [e \in Envs |-> "none"]
    /\ handler = [e \in Envs |-> "none"]
    /\ fk = [e \in Envs |-> NoFk]
    /\ acc = [e \in Envs |-> NoAcc]
    /\ retval = [e \in Envs |-> -1]
    /\ nfail = 0
    /\ nwr = 0
    /\ lim \in L
    /\ own = [e \in Envs |-> NoView]
    /\ snap = [e \in Envs |-> NoView]
    /\ pfold = [e \in Envs |-> NoOld]
    /\ nflt = [e \in Envs |-> 0]
    /\ wrote = [e \in Envs |-> {}]
Init == InitWith(Limits)

Next ==
    \E e \in Envs :
        \/ UserWrite(e)
        \/ UserRead(e)
        \/ Retry(e)
        \/ PgfaultCheck(e)
        \/ PgfaultAlloc(e)
        \/ PgfaultCopyUnmap(e)
        \/ PgfaultMap(e)
        \/ ForkEntry(e)
        \/ ForkExofork(e)
        \/ ForkWalk(e)
        \/ DupChild(e)
        \/ DupParent(e)
        \/ ForkXstack(e)
        \/ ForkUpcall(e)
        \/ ForkStatus(e)
        \/ ForkChild(e)
        \/ ForkChildRet(e)
        \/ StackPush(e)

Spec == Init /\ [][Next]_vars

\* the steps of one environment
EnvNext(e) ==
    \/ UserWrite(e) \/ UserRead(e) \/ Retry(e)
    \/ PgfaultCheck(e) \/ PgfaultAlloc(e) \/ PgfaultCopyUnmap(e)
    \/ PgfaultMap(e)
    \/ ForkEntry(e) \/ ForkExofork(e) \/ ForkWalk(e) \/ DupChild(e)
    \/ DupParent(e) \/ ForkXstack(e) \/ ForkUpcall(e) \/ ForkStatus(e)
    \/ ForkChild(e) \/ ForkChildRet(e) \/ StackPush(e)
\* the kernel's scheduler is round-robin: an environment that can take a
\* step takes one in the end
InitFair == InitWith(LimitsFair)
SpecFair ==
    InitFair /\ [][Next]_vars /\ \A e \in Envs : WF_vars(EnvNext(e))

(* ------------------------------------------------------------------ *)
(* Properties.                                                          *)
(* ------------------------------------------------------------------ *)
PWU == {PTE_P, PTE_W, PTE_U}
PUCow == {PTE_P, PTE_U, PTE_COW}
PU == {PTE_P, PTE_U}
\* e is a live environment that fork created
Forked(e) == e # 1 /\ status[e] # "ENV_FREE"
\* fork() has returned in e: as the parent, or on either side
ReturnedParent(e) == pc[e] = "user" /\ retval[e] > 0
Returned(e) == pc[e] = "user" /\ retval[e] >= 0
\* the fault e is handling is a write to a page that was copy-on-write
\* when the fault was taken
Legit(e) == acc[e].wr /\ PTE_COW \in pfold[e].pt[acc[e].pn].perm

(* ---- C1 ---- *)
\* C1: once fork() has returned in an environment, what it reads from a
\* page that was WRITABLE or COW when fork() was called is the value it
\* last wrote there itself, or the value the page had at the call.
C1_Isolation ==
    \A e \in Envs :
        Returned(e) =>
            \A pn \in UserPages :
                own[e][pn] # -1 => View(e, pn) = own[e][pn]

(* ---- C2 ---- *)
\* the child of a fork that is under way, or was abandoned, is not RUNNABLE
C2_ChildWaits ==
    \A p \in Envs :
        fk[p].envid # 0 => status[fk[p].envid] = "ENV_NOT_RUNNABLE"
\* the step that makes an environment RUNNABLE is its parent's
\* sys_env_set_status, taken when every page the parent had mapped at the
\* call, the exception stack aside, is mapped in the child, the child's
\* exception stack is allocated and the child's upcall is installed
C2_BecomesRunnable ==
    \A c \in Envs :
        (status[c] # "ENV_RUNNABLE" /\ status'[c] = "ENV_RUNNABLE") =>
            \E p \in Envs :
                /\ pc[p] = "fork_status" /\ fk[p].envid = c
                /\ \A pn \in Pages \ {UXSTACKPN} :
                       snap[p][pn] # -1 => Present(c, pn)
                /\ pt[c][UXSTACKPN].perm = PWU
                /\ upcall[c] # "none" /\ upcall[c] = upcall[p]
\* a RUNNABLE child has its exception stack and its upcall
C2_RunnableIsComplete ==
    \A c \in Envs :
        (Forked(c) /\ Running(c)) =>
            /\ Writable(c, UXSTACKPN)
            /\ upcall[c] # "none"
\* C2: the child is never RUNNABLE while the fork that builds it is under
\* way: it becomes RUNNABLE by the driver's sys_env_set_status only, after
\* the walk has duplicated every page, after its exception stack has been
\* allocated and after its upcall has been installed.
C2_NoPartialChild ==
    /\ [](C2_ChildWaits /\ C2_RunnableIsComplete)
    /\ [][C2_BecomesRunnable]_vars

\* fork has returned the child's id and the child is RUNNABLE with all of
\* its pages, its exception stack and its upcall
C2_Witness ==
    \E p \in Envs, c \in Envs :
        /\ pc[p] = "user" /\ retval[p] = c /\ c # p
        /\ status[c] = "ENV_RUNNABLE" /\ pc[c] = "fork_child"
        /\ Present(c, UDATAPN) /\ Writable(c, UXSTACKPN)
        /\ upcall[c] = "_pgfault_upcall"

(* ---- C3 ---- *)
C3_Step ==
    \A c \in Envs :
        /\ (status[c] # "ENV_RUNNABLE" /\ status'[c] = "ENV_RUNNABLE") =>
               \E p \in Envs :
                   /\ fk[p].envid = c /\ retval'[p] = c /\ pc'[p] = "user"
                   /\ \A pn \in Pages \ {UXSTACKPN} :
                          snap[p][pn] # -1 =>
                              Present(c, pn) /\ View(c, pn) = snap[p][pn]
        /\ (pc[c] = "fork_child_ret" /\ pc'[c] = "user") => retval'[c] = 0
\* C3: at the step that makes the child RUNNABLE, every page below UTOP
\* other than the exception stack that the caller had mapped when it
\* called fork() is mapped in the child and reads there as it read in the
\* caller at the call; the caller is returned the child's id and the
\* child is returned 0.
C3_Snapshot == [][C3_Step]_vars

\* a child made RUNNABLE by a caller that had PFTEMP mapped and had
\* written its data page before the call: the child has both pages and
\* reads the written value
C3_Witness ==
    \E p \in Envs, c \in Envs :
        /\ p # c /\ ReturnedParent(p) /\ retval[p] = c
        /\ status[c] = "ENV_RUNNABLE" /\ pc[c] = "fork_child"
        /\ Present(c, PFTEMPPN)
        /\ View(c, UDATAPN) = 0 /\ View(p, UDATAPN) = 0

(* ---- C4 ---- *)
\* C4: when fork() has returned in an environment, and when pgfault
\* returns in it, no frame that it maps and that has more than one
\* mapping, in whatever environments and PFTEMP included, is mapped
\* WRITABLE by it (the specification asks for COW besides, in every
\* mapping).
C4_FrameSharing ==
    \A e \in Envs :
        (Returned(e) \/ pc[e] = "retry") =>
            \A pn \in Pages :
                (Present(e, pn) /\ Cardinality(Mappings(pt, FrameOf(e, pn))) > 1)
                    => ~Writable(e, pn)

(* ---- C5 ---- *)
\* C5: in every reachable state no page-table entry has both COW and
\* WRITABLE: every installed mapping is PRESENT|USER|WRITABLE,
\* PRESENT|USER|COW or PRESENT|USER, and an empty entry has no bit.
C5_CowWritableExclusive ==
    \A e \in Envs, pn \in Pages :
        /\ pt[e][pn].perm \in {PWU, PUCow, PU, {}}
        /\ ~(PTE_COW \in pt[e][pn].perm /\ PTE_W \in pt[e][pn].perm)
        /\ (pt[e][pn].f = 0) = (pt[e][pn].perm = {})

\* pgfault has mapped a private copy in one environment, duppage has left
\* the page copy-on-write and the text read-only in another, and fork has
\* given that one its exception stack
C5_Witness ==
    \E e \in Envs, c \in Envs :
        /\ e # c
        /\ pc[e] = "retry" /\ pt[e][acc[e].pn].perm = PWU
        /\ pt[c][acc[e].pn].perm = PUCow
        /\ pt[c][UTEXTPN].perm = PU
        /\ pt[c][UXSTACKPN].perm = PWU

(* ---- C6 ---- *)
\* the check of lines 26-31 changes nothing, and sends a write to a
\* copy-on-write page on to the resolution and any other fault to panic
C6_Check ==
    \A e \in Envs :
        (pc[e] = "pgfault" /\ pc'[e] # "pgfault") =>
            /\ pt' = pt /\ pd' = pd /\ mem' = mem
            /\ status' = status /\ upcall' = upcall
            /\ IF acc[e].wr /\ IsCow(e, acc[e].pn)
               THEN pc'[e] = "pf_alloc"
               ELSE pc'[e] = "panic"
\* the resolution goes on to its end unless a kernel primitive fails, and
\* pgfault returns from nothing but a resolution
C6_Resolves ==
    \A e \in Envs :
        /\ (pc[e] = "pf_alloc" /\ pc'[e] # "pf_alloc") =>
               \/ pc'[e] = "pf_unmap"
               \/ pc'[e] = "panic" /\ (~PageAllocPre \/ nfail' > nfail)
        /\ (pc[e] = "pf_unmap" /\ pc'[e] # "pf_unmap") =>
               \/ pc'[e] = "pf_map"
               \/ pc'[e] = "panic" /\ nfail' > nfail
        /\ (pc[e] = "pf_map" /\ pc'[e] # "pf_map") =>
               \/ pc'[e] = "retry"
               \/ pc'[e] = "panic" /\ (~Present(e, PFTEMPPN) \/ nfail' > nfail)
        /\ (pc[e] # "retry" /\ pc'[e] = "retry") =>
               pc[e] = "pf_map" /\ Legit(e)
\* a mapping that is PRESENT|USER only stays as it is while its
\* environment lives
C6_NoPromotion ==
    \A e \in Envs, pn \in Pages :
        pt[e][pn].perm = PU =>
            \/ pt'[e][pn] = pt[e][pn]
            \/ pc'[e] = "dead" /\ pt'[e][pn] = NoPte
C6_Resolving ==
    \A e \in Envs :
        pc[e] \in {"pf_alloc", "pf_unmap", "pf_map"} => Legit(e)
\* C6: pgfault goes on to resolve a fault exactly when it is a write to a
\* copy-on-write page and returns only from such a fault, a kernel
\* primitive that fails being the one thing that stops the resolution; for
\* any other fault the environment panics with no mapping, page contents
\* or environment changed; a read-only page is never made writable.
C6_ResolvesIffCowWrite ==
    /\ []C6_Resolving
    /\ [][C6_Check /\ C6_Resolves /\ C6_NoPromotion]_vars

\* an environment has panicked on a write to its read-only text, which is
\* still mapped read-only, while another one has had a fault resolved
C6_Witness ==
    \E e \in Envs, o \in Envs :
        /\ pc[e] = "panic" /\ acc[e].wr /\ acc[e].pn = UTEXTPN
        /\ pt[e][UTEXTPN].perm = PU
        /\ o # e /\ pc[o] = "retry" /\ acc[o].wr /\ Running(o)

(* ---- C7 ---- *)
\* every RUNNABLE environment that has called fork or come out of one has
\* its exception stack; the exception stack is PRESENT|USER|WRITABLE on a
\* frame with no other mapping, and duppage is never at work on it
C7_Private ==
    \A e \in Envs :
        /\ (Running(e) /\ handler[e] # "none") => Present(e, UXSTACKPN)
        /\ Present(e, UXSTACKPN) =>
              /\ pt[e][UXSTACKPN].perm = PWU
              /\ Mappings(pt, FrameOf(e, UXSTACKPN)) = {<<e, UXSTACKPN>>}
        /\ pc[e] \in {"dup_child", "dup_parent"} => Pgno(e) # UXSTACKPN
\* the exception stack is given a frame that was free, zeroed, and keeps
\* it; what it holds changes only when its own environment takes a fault
C7_Step ==
    \A e \in Envs :
        /\ (~Present(e, UXSTACKPN) /\ Present(e, UXSTACKPN)') =>
              /\ pt'[e][UXSTACKPN].f \in FreeIn(pt)
              /\ View(e, UXSTACKPN)' = 0
        /\ (Present(e, UXSTACKPN) /\ pc'[e] # "dead") =>
              /\ pt'[e][UXSTACKPN] = pt[e][UXSTACKPN]
              /\ View(e, UXSTACKPN)' # View(e, UXSTACKPN) =>
                     pc[e] # "pgfault" /\ pc'[e] = "pgfault"
\* C7: the exception-stack page of every environment is mapped
\* PRESENT|USER|WRITABLE, never COW, to a frame nothing else maps; the
\* walk never hands it to duppage and the child is given a fresh frame
\* there; a fault handled in one environment never changes what the
\* exception stack of another holds.
C7_XstackPrivate ==
    /\ []C7_Private
    /\ [][C7_Step]_vars

\* the parent has taken faults and the child, RUNNABLE, none yet: the
\* parent's exception stack holds a trap frame, the child's is as it was
\* allocated, on a frame of its own
C7_Witness ==
    \E p \in Envs, c \in Envs :
        /\ p # c /\ retval[p] = c /\ pc[p] = "retry"
        /\ Running(c) /\ pc[c] = "fork_child"
        /\ View(p, UXSTACKPN) = TrapFrame
        /\ View(c, UXSTACKPN) = 0
        /\ FrameOf(p, UXSTACKPN) # FrameOf(c, UXSTACKPN)

(* ---- C8 ---- *)
C8_Return ==
    \A e \in Envs :
        (pc[e] = "pf_map" /\ pc'[e] = "retry") =>
            /\ pt'[e][acc[e].pn].perm = PWU
            /\ \A pn \in Pages : pfold[e].pt[pn].f # pt'[e][acc[e].pn].f
            /\ \A o \in Envs \ {e}, pn \in Pages :
                   pt'[o][pn].f # pt'[e][acc[e].pn].f
            /\ View(e, acc[e].pn)' = pfold[e].view[acc[e].pn]
            /\ \A pn \in Pages \ {acc[e].pn} : pt'[e][pn] = pfold[e].pt[pn]
\* C8: when pgfault returns from a write to a copy-on-write page, the
\* faulting page is mapped PRESENT|USER|WRITABLE to a frame that was not
\* mapped in the environment when the fault was taken and that no other
\* environment maps, the frame holds what the page held when the fault
\* was taken, and every other page of the environment is mapped as it was.
C8_OnePrivateCopy == [][C8_Return]_vars

(* ---- C9 ---- *)
\* C9: when pgfault has returned from a resolved fault, PFTEMP is not
\* mapped in the environment, and the walk of a fork never has PFTEMP
\* to duplicate.
C9_ScratchUnmapped ==
    \A e \in Envs :
        /\ pc[e] = "retry" => ~Present(e, PFTEMPPN)
        /\ pc[e] \in {"dup_child", "dup_parent"} => Pgno(e) # PFTEMPPN

Allocated == FreeIn(pt) \ FreeIn(pt')
FramesOf(ptab) == {ptab[pn].f : pn \in Pages} \ {0}
\* a step of the walk or of duppage takes no frame, and duppage gives the
\* child the caller's frame
C11_Walk ==
    \A e \in Envs :
        /\ (/\ pc[e] \in {"fork_walk", "dup_child", "dup_parent"}
            /\ pc'[e] \in {"fork_walk", "dup_child", "dup_parent",
                            "fork_xstack"}
            /\ pc'[e] # pc[e]) => Allocated = {}
        /\ (pc[e] = "dup_child" /\ pc'[e] \in {"dup_parent", "fork_walk"}) =>
               /\ pt'[fk[e].envid][Pgno(e)].f = pt[e][Pgno(e)].f
               /\ pt[fk[e].envid][Pgno(e)] = NoPte
\* the steps that take a frame: pgfault's sys_page_alloc at PFTEMP, fork's
\* sys_page_alloc of the child's exception stack, and the first
\* set_pgfault_handler of an environment, for its own exception stack;
\* each takes one frame.  No other step does: no read, no write that
\* lands, no other step of fork, duppage or pgfault.
C11_Allocations ==
    Allocated # {} =>
        \E e \in Envs :
            \/ /\ pc[e] = "pf_alloc" /\ pc'[e] = "pf_unmap"
               /\ Allocated = {pt'[e][PFTEMPPN].f}
            \/ /\ pc[e] = "fork_xstack" /\ pc'[e] = "fork_upcall"
               /\ Allocated = {pt'[fk[e].envid][UXSTACKPN].f}
            \/ /\ pc[e] = "user" /\ pc'[e] = "fork_exofork"
               /\ handler[e] = "none"
               /\ Allocated = {pt'[e][UXSTACKPN].f}
\* when pgfault returns, the environment maps one frame that it did not
\* map when the fault was taken
C11_OneMore ==
    \A e \in Envs :
        (pc[e] = "pf_map" /\ pc'[e] = "retry") =>
            Cardinality(FramesOf(pt'[e]) \ FramesOf(pfold[e].pt)) = 1
\* C11: the walk of fork() and duppage allocate no frame: duppage makes
\* the child's page refer to the caller's frame, and the one frame that
\* fork's own code allocates is the child's exception stack; no read
\* allocates; each write that faults on a COW page makes pgfault allocate
\* exactly one frame.
C11_LazyCopy == [][C11_Walk /\ C11_Allocations /\ C11_OneMore]_vars

\* fork() has returned in the parent and the child has yet to run: the
\* data page is one frame, COW on both sides, the text is one frame, and
\* the parent's stack, which faulted inside fork, is a frame of its own
C11_Witness ==
    \E p \in Envs, c \in Envs :
        /\ p # c /\ ReturnedParent(p) /\ retval[p] = c
        /\ Running(c) /\ pc[c] = "fork_child"
        /\ IsCow(p, UDATAPN) /\ IsCow(c, UDATAPN)
        /\ FrameOf(p, UDATAPN) = FrameOf(c, UDATAPN)
        /\ FrameOf(p, UTEXTPN) = FrameOf(c, UTEXTPN)
        /\ Writable(p, USTACKPN)
        /\ FrameOf(p, USTACKPN) # FrameOf(c, USTACKPN)

(* ---- C12 ---- *)
\* where the code of fork, duppage and pgfault calls a kernel primitive,
\* and whether the primitive can succeed there
SyscallPcs == {"pf_alloc", "pf_unmap", "pf_map", "fork_exofork", "dup_child",
               "dup_parent", "fork_xstack", "fork_upcall", "fork_status"}
ForkPcs == {"fork_exofork", "fork_walk", "dup_child", "dup_parent",
            "fork_xstack", "fork_upcall", "fork_status", "fork_child",
            "fork_child_ret"}
CallPre(e) ==
    CASE pc[e] \in {"pf_alloc", "fork_xstack"} -> PageAllocPre
      [] pc[e] = "pf_map" -> Present(e, PFTEMPPN)
      [] pc[e] \in {"dup_child", "dup_parent"} -> Present(e, Pgno(e))
      [] pc[e] = "fork_exofork" -> ExoforkPre
      [] OTHER -> TRUE
\* the step of e is a call of a kernel primitive (not the fault of a push
\* on its stack)
Calls(e) ==
    /\ pc[e] \in SyscallPcs /\ pc'[e] # pc[e]
    /\ pc[e] \in CallerPcs => StackOk(e)
\* a primitive that is refused, or that cannot succeed, ends its caller in
\* panic; a refusal is always some caller's, or is met by
\* set_pgfault_handler at the entry of fork(), which panics as well
C12_FailurePanics ==
    /\ \A e \in Envs :
           (Calls(e) /\ (nfail' > nfail \/ ~CallPre(e))) => pc'[e] = "panic"
    /\ nfail' > nfail =>
           \E e \in Envs : (Calls(e) \/ pc[e] = "user") /\ pc'[e] = "panic"
\* an environment in panic takes no further step: nothing of its own
\* changes any more
C12_PanicIsFinal ==
    \A e \in Envs :
        pc[e] = "panic" =>
            /\ pc'[e] = "panic" /\ pt'[e] = pt[e] /\ retval'[e] = retval[e]
            /\ status'[e] = status[e] /\ fk'[e] = fk[e]
\* fork() returns from line 139, after a sys_env_set_status that was not
\* refused, with the child's id, or from line 112 with 0
C12_Returns ==
    \A e \in Envs :
        (pc[e] \in ForkPcs /\ pc'[e] = "user") =>
            \/ /\ pc[e] = "fork_status" /\ nfail' = nfail
               /\ retval'[e] = fk[e].envid /\ retval'[e] \in Envs \ {e}
               /\ status'[retval'[e]] = "ENV_RUNNABLE"
            \/ pc[e] = "fork_child_ret" /\ retval'[e] = 0
\* what fork() has returned is never an error: it is a child's id or 0
\* (-1 stands for no return yet)
C12_NoErrorReturned ==
    \A e \in Envs :
        /\ retval[e] \in {-1, 0} \cup (Envs \ {e})
        /\ (pc[e] = "user" /\ handler[e] # "none") => retval[e] >= 0
        /\ pc[e] \in ForkPcs \cup {"none"} => retval[e] = -1
\* C12: fork() either completes or panics: a kernel primitive called by
\* fork, duppage or pgfault that fails ends the calling environment in
\* panic, where it takes no further step; fork() returns only when all
\* went well, the child's id in the parent and 0 in the child, and never
\* returns an error.
C12_CompletesOrPanics ==
    /\ []C12_NoErrorReturned
    /\ [][C12_FailurePanics /\ C12_PanicIsFinal /\ C12_Returns]_vars

\* a sys_page_map of duppage was refused on the stack page, after the
\* text and the data had been duplicated: the caller is in panic and
\* fork() has returned nothing
C12_Witness ==
    \E e \in Envs :
        /\ pc[e] = "panic" /\ nfail = 1 /\ retval[e] = -1
        /\ fk[e].envid # 0
        /\ Present(fk[e].envid, UDATAPN)
        /\ IsCow(e, UDATAPN)
        /\ ~Present(fk[e].envid, USTACKPN)
        /\ ~Present(fk[e].envid, UXSTACKPN)

(* ---- C13 ---- *)
\* the step changes no page-table entry but that of page pn of c
OnlyEntry(c, pn) ==
    \A o \in Envs, n \in Pages : (o # c \/ n # pn) => pt'[o][n] = pt[o][n]
\* while duppage is at work on a page, the page is present in the caller,
\* and until the child's mapping is installed the caller's entry is the
\* one that line 67 read
C13_PteRead ==
    \A e \in Envs :
        /\ pc[e] \in {"dup_child", "dup_parent"} =>
               Present(e, Pgno(e)) /\ PTE_P \in fk[e].pte
        /\ pc[e] = "dup_child" => pt[e][Pgno(e)].perm = fk[e].pte
\* the child-side map: COW for a page that was WRITABLE or COW, read-only
\* for a read-only page, in both cases on the caller's frame; for a
\* read-only page duppage returns here
C13_ChildSide ==
    \A e \in Envs :
        (pc[e] = "dup_child" /\ pc'[e] \in {"dup_parent", "fork_walk"}) =>
            /\ OnlyEntry(fk[e].envid, Pgno(e))
            /\ pt'[fk[e].envid][Pgno(e)].f = pt[e][Pgno(e)].f
            /\ IF PTE_W \in fk[e].pte \/ PTE_COW \in fk[e].pte
               THEN /\ pt'[fk[e].envid][Pgno(e)].perm = PUCow
                    /\ pc'[e] = "dup_parent"
               ELSE /\ pt'[fk[e].envid][Pgno(e)].perm = PU
                    /\ pc'[e] = "fork_walk"
\* the parent-side map, on which duppage returns for a page that was
\* WRITABLE or COW: both sides are PRESENT|USER|COW on one frame
C13_ParentSide ==
    \A e \in Envs :
        (pc[e] = "dup_parent" /\ pc'[e] = "fork_walk") =>
            /\ OnlyEntry(e, Pgno(e))
            /\ (PTE_W \in fk[e].pte \/ PTE_COW \in fk[e].pte)
            /\ pt'[e][Pgno(e)] = [f |-> pt[e][Pgno(e)].f, perm |-> PUCow]
            /\ pt'[fk[e].envid][Pgno(e)] = pt'[e][Pgno(e)]
\* C13: duppage follows the policy table: for a present page whose PTE is
\* WRITABLE or COW, on return the child and the parent both map the page
\* PRESENT|USER|COW on the same frame; for a read-only page the child maps
\* it PRESENT|USER on the parent's frame and the parent's mapping is as it
\* was; no mapping of any other page is changed in either.
C13_PolicyTable ==
    /\ []C13_PteRead
    /\ [][C13_ChildSide /\ C13_ParentSide]_vars

\* the walk of a second fork is over: the read-only text is in the new
\* child read-only, and the data page, which was COW already (an earlier
\* child still shares it), is COW on both sides on the same frame
C13_Witness ==
    \E e \in Envs, o \in Envs :
        /\ pc[e] = "fork_xstack" /\ o # e /\ o # fk[e].envid
        /\ pt[fk[e].envid][UTEXTPN] = [f |-> FrameOf(e, UTEXTPN), perm |-> PU]
        /\ pt[e][UTEXTPN].perm = PU
        /\ pt[e][UDATAPN].perm = PUCow
        /\ pt[fk[e].envid][UDATAPN] = pt[e][UDATAPN]
        /\ pt[o][UDATAPN] = pt[e][UDATAPN]

(* ---- C14 ---- *)
\* before the child-side map the child has no mapping of the page and the
\* caller's is as it was; before the parent-side map the child has its
\* mapping, on the caller's frame
C14_ChildFirst ==
    \A e \in Envs :
        /\ pc[e] = "dup_child" =>
               /\ ~Present(fk[e].envid, Pgno(e))
               /\ pt[e][Pgno(e)].perm = fk[e].pte
        /\ pc[e] = "dup_parent" =>
               pt[fk[e].envid][Pgno(e)] =
                   [f |-> FrameOf(e, Pgno(e)), perm |-> PUCow]
\* a mapping goes from WRITABLE to COW, and a COW mapping is installed
\* again, at the parent-side map of duppage only, when the child's
\* mapping of the page is there
C14_Downgrade ==
    \A e \in Envs, pn \in Pages :
        /\ (Writable(e, pn) /\ PTE_COW \in pt'[e][pn].perm) =>
               /\ pc[e] = "dup_parent" /\ pn = Pgno(e)
               /\ Present(fk[e].envid, pn)
               /\ pt'[fk[e].envid][pn].f = pt'[e][pn].f
        /\ (pc[e] = "dup_parent" /\ pc'[e] = "fork_walk") =>
               Present(fk[e].envid, Pgno(e))
\* while the walk is under way, a page that it has passed and that is COW
\* in the caller is mapped in the child, COW and on the same frame
C14_NoDowngradeWithoutChild ==
    \A e \in Envs, pn \in Pages :
        (/\ pc[e] \in {"fork_walk", "dup_child", "dup_parent"}
         /\ IsCow(e, pn)
         /\ pn < Pgno(e)) => pt[fk[e].envid][pn] = pt[e][pn]
\* C14: in duppage on a WRITABLE or COW page the child's mapping is
\* installed strictly before the parent's own mapping is installed again
\* as COW: in no reachable state has duppage downgraded the parent's page
\* while the child has no mapping of it.
C14_ChildBeforeParent ==
    /\ [](C14_ChildFirst /\ C14_NoDowngradeWithoutChild)
    /\ [][C14_Downgrade]_vars

\* between the two calls of duppage on the data page: the child has it
\* COW and the caller has it WRITABLE still, on the same frame
C14_Witness ==
    \E e \in Envs :
        /\ pc[e] = "dup_parent" /\ Pgno(e) = UDATAPN
        /\ pt[e][UDATAPN].perm = PWU
        /\ pt[fk[e].envid][UDATAPN] = [f |-> FrameOf(e, UDATAPN), perm |-> PUCow]

(* ---- C16 ---- *)
\* the pages at or after the walk's position that duppage is due for:
\* below UTOP, page table present, page present, not the exception stack
C16_Due(e) ==
    {pn \in 0..(UTOPPN - 1) :
        /\ pn >= Pgno(e)
        /\ pd[e][pn \div NPTENTRIES]
        /\ PTE_P \in pt[e][pn].perm
        /\ pn # UXSTACKPN}
\* the walk starts at page 0, enters duppage at the lowest page due,
\* goes on from the page after it, and ends when no page is due
C16_Walk ==
    \A e \in Envs :
        /\ (pc[e] = "fork_exofork" /\ pc'[e] = "fork_walk") => Pgno(e)' = 0
        /\ (pc[e] = "fork_walk" /\ pc'[e] = "dup_child") =>
               /\ C16_Due(e) # {}
               /\ Pgno(e)' = Min(C16_Due(e))
               /\ fk'[e].pte = pt[e][Pgno(e)'].perm
        /\ (pc[e] = "fork_walk" /\ pc'[e] = "fork_xstack") => C16_Due(e) = {}
        /\ (pc[e] = "dup_child" /\ pc'[e] = "dup_parent") => Pgno(e)' = Pgno(e)
        /\ (pc[e] \in {"dup_child", "dup_parent"} /\ pc'[e] = "fork_walk") =>
               Pgno(e)' = Pgno(e) + 1
        /\ (/\ pc[e] \in {"fork_walk", "dup_child", "dup_parent", "pgfault",
                           "pf_alloc", "pf_unmap", "pf_map", "retry"}
            /\ pc'[e] \in {"fork_walk", "dup_child", "dup_parent", "pgfault",
                            "pf_alloc", "pf_unmap", "pf_map", "retry"}) =>
               Pgno(e)' >= Pgno(e)
\* duppage is at work on a present page below UTOP, in a present page
\* table, that is not the exception stack
C16_Duppage ==
    \A e \in Envs :
        pc[e] \in {"dup_child", "dup_parent"} =>
            /\ Pgno(e) < UTOPPN /\ Pgno(e) # UXSTACKPN
            /\ pd[e][Pgno(e) \div NPTENTRIES]
            /\ PTE_P \in fk[e].pte
\* a page table that is not present holds no page
C16_PdeCovers ==
    \A e \in Envs, pn \in Pages : Present(e, pn) => pd[e][PDX(pn)]
\* C16: the walk of fork() goes through the page numbers below UTOP in
\* increasing order and calls duppage at most once for a page number:
\* exactly for those whose page-directory entry is PRESENT, whose PTE is
\* PRESENT when the walk reaches it and which are not the exception
\* stack; a region whose PDE is not PRESENT is passed over, and duppage
\* is never called for the exception stack or at or above UTOP.
C16_WalkOrder ==
    /\ [](C16_Duppage /\ C16_PdeCovers)
    /\ [][C16_Walk]_vars

\* the walk of a first fork is over: the child has the text, the data and
\* the stack, nothing in the page table of PFTEMP, which the walk passed
\* over, and no exception stack yet
C16_Witness ==
    \E e \in Envs :
        /\ pc[e] = "fork_xstack"
        /\ ~pd[fk[e].envid][PDX(PFTEMPPN)]
        /\ Present(fk[e].envid, UTEXTPN) /\ Present(fk[e].envid, UDATAPN)
        /\ Present(fk[e].envid, USTACKPN)
        /\ ~Present(fk[e].envid, UXSTACKPN) /\ Present(e, UXSTACKPN)

(* ---- C17 ---- *)
\* the phases of an environment's life, in their order
Rank(ph) ==
    CASE ph = "NONEXISTENT" -> 0
      [] ph = "CREATED_NOT_RUNNABLE" -> 1
      [] ph = "POPULATED" -> 2
      [] ph = "RUNNABLE" -> 3
      [] ph = "GONE" -> 4
\* where environment c stands in its life
PhaseName(c) ==
    IF pc[c] = "none" THEN "NONEXISTENT"
    ELSE IF status[c] = "ENV_NOT_RUNNABLE"
         THEN IF Writable(c, UXSTACKPN) /\ upcall[c] # "none"
              THEN "POPULATED" ELSE "CREATED_NOT_RUNNABLE"
    ELSE IF status[c] = "ENV_RUNNABLE" THEN "RUNNABLE"
    ELSE "GONE"
Phase(c) == Rank(PhaseName(c))
NONEXISTENT == Rank("NONEXISTENT")
CREATED_NOT_RUNNABLE == Rank("CREATED_NOT_RUNNABLE")
POPULATED == Rank("POPULATED")
RUNNABLE == Rank("RUNNABLE")
\* a child moves one phase at a time, each time by the step of its parent
\* that the phase is named after, and never back
C17_Moves ==
    \A c \in Envs :
        /\ Phase(c)' >= Phase(c)
        /\ Phase(c) < RUNNABLE => Phase(c)' <= Phase(c) + 1
        /\ Phase(c)' # Phase(c) =>
              \/ Phase(c) = RUNNABLE
              \/ \E p \in Envs \ {c} :
                     /\ fk'[p].envid = c \/ fk[p].envid = c
                     /\ \/ Phase(c)' = CREATED_NOT_RUNNABLE
                           /\ pc[p] = "fork_exofork" /\ pc'[p] = "fork_walk"
                        \/ Phase(c)' = POPULATED
                           /\ pc[p] = "fork_upcall" /\ pc'[p] = "fork_status"
                        \/ Phase(c)' = RUNNABLE
                           /\ pc[p] = "fork_status" /\ pc'[p] = "user"
\* a step of fork or duppage after the child's creation that fails ends
\* the driver in panic with the child not RUNNABLE
C17_FailureAbandons ==
    \A p \in Envs :
        (/\ pc[p] \in {"dup_child", "dup_parent", "fork_xstack",
                        "fork_upcall", "fork_status"}
         /\ pc'[p] # pc[p] /\ StackOk(p)
         /\ (nfail' > nfail \/ ~CallPre(p))) =>
            /\ pc'[p] = "panic"
            /\ fk'[p].envid = fk[p].envid
            /\ status'[fk[p].envid] = "ENV_NOT_RUNNABLE"
\* the child of a driver in panic stays as it was left, never RUNNABLE
C17_Abandoned ==
    \A p \in Envs :
        (pc[p] = "panic" /\ fk[p].envid # 0) =>
            /\ Phase(fk[p].envid) \in {CREATED_NOT_RUNNABLE, POPULATED}
            /\ Phase(fk[p].envid)' = Phase(fk[p].envid)
            /\ pc'[fk[p].envid] = "fork_child"
            /\ pt'[fk[p].envid] = pt[fk[p].envid]
            /\ pc'[p] = "panic" /\ fk'[p] = fk[p]
\* C17: the child goes NONEXISTENT, CREATED_NOT_RUNNABLE, POPULATED,
\* RUNNABLE, in that order and by its parent's steps; when a step after
\* the child's creation fails (a sys_page_map of duppage, the allocation
\* of the exception stack, the upcall, the status) the driver panics and
\* the child is not RUNNABLE in any later state.
C17_Lifecycle == [][C17_Moves /\ C17_FailureAbandons /\ C17_Abandoned]_vars

\* sys_env_set_status was refused: the driver is in panic and its child,
\* populated, waits for ever
C17_Witness ==
    \E p \in Envs :
        /\ pc[p] = "panic" /\ fk[p].envid # 0 /\ nfail = 1
        /\ Phase(fk[p].envid) = POPULATED
        /\ Present(fk[p].envid, USTACKPN)

(* ---- C18 ---- *)
\* C18: no frame is mapped WRITABLE by one RUNNABLE environment and
\* mapped, with whatever permission and at whatever page, PFTEMP
\* included, by another RUNNABLE environment.
C18_NoWritableSharing ==
    \A e \in Envs, o \in Envs :
        (e # o /\ Running(e) /\ Running(o)) =>
            \A pn \in Pages, qn \in Pages :
                (Writable(e, pn) /\ Present(o, qn)) =>
                    FrameOf(e, pn) # FrameOf(o, qn)

\* an environment that took a fault on its stack in a first fork has
\* forked again and taken the fault again: its second child, RUNNABLE,
\* has at PFTEMP and at the stack the frame that the first fault left
\* WRITABLE in the parent, while the parent has a newer one, WRITABLE, at
\* both; the first child is RUNNABLE too
C18_Witness ==
    \E p \in Envs, c \in Envs, d \in Envs :
        /\ p # c /\ p # d /\ c # d
        /\ Running(p) /\ Running(c) /\ Running(d)
        /\ ReturnedParent(p) /\ retval[p] = d
        /\ IsCow(d, PFTEMPPN) /\ IsCow(d, USTACKPN)
        /\ FrameOf(d, PFTEMPPN) = FrameOf(d, USTACKPN)
        /\ Writable(p, PFTEMPPN) /\ Writable(p, USTACKPN)
        /\ FrameOf(p, PFTEMPPN) = FrameOf(p, USTACKPN)
        /\ FrameOf(p, PFTEMPPN) # FrameOf(d, PFTEMPPN)
        /\ Present(c, USTACKPN) /\ ~Present(c, PFTEMPPN)

(* ---- C19 ---- *)
\* e has panicked because a kernel primitive failed (a panic of pgfault's
\* check keeps the fault on record)
Failed(e) == pc[e] = "panic" /\ acc[e] = NoAcc
\* the access made again when pgfault has returned lands: it takes no
\* second fault
C19_RetryLands ==
    \A e \in Envs :
        (pc[e] = "retry" /\ pc'[e] # "retry") =>
            /\ pc'[e] = acc[e].ret
            /\ Writable(e, acc[e].pn) /\ pt'[e] = pt[e]
\* the child's write of thisenv faults on a COW data page, and faults once:
\* on its way out of fork the child has taken one fault for its stack and
\* one for its data
C19_ChildFaults ==
    \A c \in Envs :
        /\ (pc[c] = "fork_child" /\ Running(c)) =>
               /\ IsCow(c, UDATAPN)
               /\ nflt[c] = (IF StackOk(c) THEN 1 ELSE 0)
        /\ pc[c] = "fork_child_ret" =>
               /\ nflt[c] = 2
               /\ Writable(c, UDATAPN) /\ Writable(c, USTACKPN)
\* a call of fork() returns the child's id, and the child is then
\* RUNNABLE with its parent's upcall, unless a primitive fails
C19_ForkReturns ==
    \A p \in Envs :
        (pc[p] = "fork_exofork")
            ~> (\/ /\ ReturnedParent(p)
                   /\ status[retval[p]] = "ENV_RUNNABLE"
                   /\ upcall[retval[p]] # "none"
                   /\ upcall[retval[p]] = upcall[p]
                \/ Failed(p))
\* the child, once RUNNABLE, returns 0 from fork(), unless a primitive
\* fails in it
C19_ChildReturns ==
    \A c \in Envs :
        (pc[c] = "fork_child" /\ Running(c))
            ~> ((pc[c] = "user" /\ retval[c] = 0) \/ Failed(c))
\* C19: with every environment scheduled fairly and unless a kernel
\* primitive fails, each call of fork() returns the child's id in the
\* parent, the child becomes RUNNABLE with the parent's upcall and
\* returns 0 from fork(); the child's write of thisenv, on a COW page, is
\* resolved by one run of pgfault, and the write made again after a
\* resolved fault does not fault.
C19_Progress ==
    /\ []C19_ChildFaults
    /\ [][C19_RetryLands]_vars
    /\ C19_ForkReturns
    /\ C19_ChildReturns

\* parent and child have both come out of the same fork(), the child
\* after its two faults
C19_Witness ==
    \E p \in Envs, c \in Envs :
        /\ p # c /\ ReturnedParent(p) /\ retval[p] = c
        /\ pc[c] = "user" /\ retval[c] = 0 /\ nflt[c] = 0
        /\ Writable(c, UDATAPN) /\ IsCow(p, UDATAPN)
        /\ upcall[c] = upcall[p]

(* ---- C20 ---- *)
\* a step of pgfault in e leaves alone the page tables of the others and
\* every entry of e but those of the faulting page and of PFTEMP; the one
\* frame whose contents it changes is the frame at PFTEMP, which nothing
\* else maps; what the others read stays as it was
C20_Frame ==
    \A e \in Envs :
        (pc[e] \in {"pgfault", "pf_alloc", "pf_unmap", "pf_map"}
         /\ pc'[e] # pc[e]) =>
            /\ \A o \in Envs \ {e} : pt'[o] = pt[o]
            /\ \A pn \in Pages \ {acc[e].pn, PFTEMPPN} :
                   pt'[e][pn] = pt[e][pn]
            /\ \A f \in Frames :
                   (mem'[f] # mem[f] /\ f \notin FreeIn(pt')) =>
                       /\ f = pt'[e][PFTEMPPN].f
                       /\ pc[e] = "pf_unmap"
                       /\ Mappings(pt', f) = {<<e, PFTEMPPN>>}
            /\ \A o \in Envs \ {e}, pn \in Pages :
                   View(o, pn)' = View(o, pn)
            /\ status' = status /\ upcall' = upcall
\* until pgfault has copied it, the faulting page is mapped as it was
\* when the fault was taken and holds what it held then
C20_OldFrame ==
    \A e \in Envs :
        (pc[e] \in {"pgfault", "pf_alloc"} /\ Running(e)) =>
            /\ \A pn \in Pages : pt[e][pn] = pfold[e].pt[pn]
            /\ View(e, acc[e].pn) = pfold[e].view[acc[e].pn]
\* C20: a run of pgfault in an environment changes no page-table entry
\* of another environment and none of its own but those of the faulting
\* page and of PFTEMP, and writes no frame but the one it has just
\* allocated: the old frame, and what every other environment reads,
\* stay as they were.
C20_FrameEffect ==
    /\ []C20_OldFrame
    /\ [][C20_Frame]_vars

\* the data page of one environment has been copied by pgfault, and
\* another environment still reads the old frame, with the value that
\* the page had from the start
C20_Witness ==
    \E e \in Envs, o \in Envs :
        /\ e # o /\ pc[e] = "retry" /\ acc[e].pn = UDATAPN
        /\ Running(o) /\ IsCow(o, UDATAPN)
        /\ FrameOf(o, UDATAPN) # FrameOf(e, UDATAPN)
        /\ View(o, UDATAPN) = MaxVal /\ View(e, UDATAPN) = MaxVal

====
